---- MODULE Spec2Model ----
(***************************************************************************)
(* Model of src/app.py: one request served by index(), that is fetch_all   *)
(* over the feed registry followed by filter_last_window on the pool.      *)
(*                                                                         *)
(* Time is counted in minutes.  An aware datetime is a record              *)
(* [wall, off]: the wall-clock reading and the UTC offset of its tzinfo;   *)
(* Python compares and sorts aware datetimes by the instant wall - off.    *)
(* An optional value (None or a value) is a sequence of length 0 or 1.     *)
(* Item fields that neither fetch_all nor filter_last_window ever reads    *)
(* or writes after construction (source, title, summary, image) are left   *)
(* out of the item records.                                                *)
(***************************************************************************)
EXTENDS Integers, Sequences, FiniteSets, TLC

VARIABLES pc, fi, responses, all_items, fallback_limit_per_feed, global_limit,
          now_ist, cutoff, within_window, final_items, seen_keys

vars == <<pc, fi, responses, all_items, fallback_limit_per_feed, global_limit,
          now_ist, cutoff, within_window, final_items, seen_keys>>

----------------------------------------------------------------------------
(* Bounds *)

NumFeeds == 2
NumLinks == 2
MaxPool == 2
MaxFallback == 2
MaxLimit == 2

----------------------------------------------------------------------------
(* Program constants and environment inputs *)

HOURS_WINDOW == 24
MinutesPerHour == 60
IST_OFFSET == 330
Now == 100000
MINYEAR == 1

AllFeedNames == << "Moneycontrol", "BS Hindi - Markets News",
                   "BS Hindi - Share Market", "The Hindu - Markets",
                   "Google News - India Markets" >>

FEEDS == SubSeq(AllFeedNames, 1, NumFeeds)

Links == 1..NumLinks

None == << >>
Some(v) == << v >>

(* dt_struct values a feed can carry: three days old, one minute older     *)
(* than the window, exactly on the cutoff, five minutes ahead of the       *)
(* server clock, and a struct whose year is out of range for datetime().   *)
BadStruct == 0
TimesUTC == { Now - 3 * HOURS_WINDOW * MinutesPerHour,
              Now - HOURS_WINDOW * MinutesPerHour - 1,
              Now - HOURS_WINDOW * MinutesPerHour,
              Now + 5 }

Entries == [link : Links, dt_struct : {None} \cup {Some(t) : t \in TimesUTC \cup {BadStruct}}]

SeqsUpTo(S, n) == UNION {[1..k -> S] : k \in 0..n}

Responses(room) ==
    {[status |-> "http_error", entries |-> << >>]}
        \cup {[status |-> "ok", entries |-> es] : es \in SeqsUpTo(Entries, room)}

----------------------------------------------------------------------------
(* datetime *)

Instant(d) == d.wall - d.off

astimezone(d, off) == [wall |-> Instant(d) + off, off |-> off]

MinusMinutes(d, m) == [wall |-> d.wall - m, off |-> d.off]

Epoch == [wall |-> 0, off |-> 0]

\* datetime() built from dt_struct, tzinfo UTC: ValueError when the year is
\* below MINYEAR.
DatetimeRaises(t) == t < MINYEAR
MakeUtc(t) == [wall |-> t, off |-> 0]

----------------------------------------------------------------------------
(* fetch_feed *)

NormaliseEntry(source_name, e) ==
    [feed |-> source_name,
     link |-> e.link,
     dt_utc |-> IF e.dt_struct = None THEN None ELSE Some(MakeUtc(e.dt_struct[1]))]

EntryRaises(e) == e.dt_struct # None /\ DatetimeRaises(e.dt_struct[1])

RECURSIVE ParseEntries(_, _, _)
ParseEntries(source_name, entries, items) ==
    IF entries = << >> THEN [raised |-> FALSE, items |-> items]
    ELSE IF EntryRaises(Head(entries)) THEN [raised |-> TRUE, items |-> items]
    ELSE ParseEntries(source_name, Tail(entries),
                      Append(items, NormaliseEntry(source_name, Head(entries))))

fetch_feed(source_name, resp) ==
    IF resp.status = "http_error"
    THEN [raised |-> FALSE, items |-> << >>]
    ELSE ParseEntries(source_name, resp.entries, << >>)

----------------------------------------------------------------------------
(* fetch_all *)

RECURSIVE EntriesReceived(_)
EntriesReceived(rs) ==
    IF rs = << >> THEN 0 ELSE Len(Head(rs).entries) + EntriesReceived(Tail(rs))

\* Variant: the except branch keeps what was parsed before the failure.
FetchAllExtendKeepsPartial(pool, r) == pool \o r.items

FetchAllExtend(pool, r) ==
    IF r.raised THEN pool ELSE pool \o r.items

FetchAllStep ==
    /\ pc = "fetch"
    /\ fi <= NumFeeds
    /\ \E resp \in Responses(MaxPool - EntriesReceived(responses)) :
          /\ responses' = Append(responses, resp)
          /\ all_items' = FetchAllExtend(all_items, fetch_feed(FEEDS[fi], resp))
    /\ fi' = fi + 1
    /\ UNCHANGED <<pc, fallback_limit_per_feed, global_limit, now_ist, cutoff,
                   within_window, final_items, seen_keys>>

FetchAllReturn ==
    /\ pc = "fetch"
    /\ fi > NumFeeds
    /\ pc' = "call"
    /\ responses' = << >>
    /\ UNCHANGED <<fi, all_items, fallback_limit_per_feed, global_limit,
                   now_ist, cutoff, within_window, final_items, seen_keys>>

----------------------------------------------------------------------------
(* filter_last_window *)

GE(a, b) == Instant(a) >= Instant(b)

HasKey(it, k) == k \in DOMAIN it

SetItem(it, k, v) == [f \in DOMAIN it \cup {k} |-> IF f = k THEN v ELSE it[f]]

(* list.sort(key=dt_ist, reverse=True): stable, equal keys keep their order *)
RECURSIVE InsertDesc(_, _)
InsertDesc(sorted, x) ==
    IF sorted = << >> THEN << x >>
    ELSE IF GE(Head(sorted).dt_ist, x.dt_ist)
         THEN << Head(sorted) >> \o InsertDesc(Tail(sorted), x)
         ELSE << x >> \o sorted

RECURSIVE SortDesc(_)
SortDesc(s) ==
    IF s = << >> THEN << >>
    ELSE InsertDesc(SortDesc(SubSeq(s, 1, Len(s) - 1)), s[Len(s)])

\* Variant: a missing timestamp is stamped with the cutoff instead of now.
StampItemMissingAsCutoff(item, now) ==
    IF item.dt_utc # None
    THEN SetItem(item, "dt_ist", astimezone(item.dt_utc[1], IST_OFFSET))
    ELSE SetItem(item, "dt_ist", MinusMinutes(now, HOURS_WINDOW * MinutesPerHour))

\* Variant: the else branch is missing, an undated item gets no dt_ist.
StampItemSkipsMissing(item, now) ==
    IF item.dt_utc # None
    THEN SetItem(item, "dt_ist", astimezone(item.dt_utc[1], IST_OFFSET))
    ELSE item

StampItem(item, now) ==
    IF item.dt_utc # None
    THEN SetItem(item, "dt_ist", astimezone(item.dt_utc[1], IST_OFFSET))
    ELSE SetItem(item, "dt_ist", now)

\* Variant: the pool itself is sorted in place after stamping.
StampAllSortsInPlace(items, now) ==
    SortDesc([i \in 1..Len(items) |-> StampItem(items[i], now)])

StampAll(items, now) == [i \in 1..Len(items) |-> StampItem(items[i], now)]

\* Variant: strict comparison against the cutoff.
InWindowTestStrict(it, cut) == Instant(it.dt_ist) > Instant(cut)

InWindowTest(it, cut) == GE(it.dt_ist, cut)

KeyOf(it) == << it.feed, it.link >>

KeysOf(s) == {KeyOf(s[i]) : i \in 1..Len(s)}

WithinWindow(items, cut) == SortDesc(SelectSeq(items, LAMBDA it : InWindowTest(it, cut)))

Seed(window) == window

FilterBegin ==
    /\ pc = "call"
    /\ \E fl \in 0..MaxFallback, gl \in {None} \cup {Some(n) : n \in 1..MaxLimit} :
          /\ fallback_limit_per_feed' = fl
          /\ global_limit' = gl
    /\ LET now == astimezone(MakeUtc(Now), IST_OFFSET)
           cut == MinusMinutes(now, HOURS_WINDOW * MinutesPerHour)
           stamped == StampAll(all_items, now)
       IN /\ now_ist' = now
          /\ cutoff' = cut
          /\ all_items' = stamped
          /\ IF \E i \in 1..Len(stamped) : ~HasKey(stamped[i], "dt_ist")
             THEN /\ pc' = "error"
                  /\ UNCHANGED <<within_window, final_items, seen_keys, fi>>
             ELSE /\ within_window' = WithinWindow(stamped, cut)
                  /\ final_items' = Seed(within_window')
                  /\ seen_keys' = KeysOf(final_items')
                  /\ fi' = 1
                  /\ pc' = "fallback"
    /\ UNCHANGED responses

FeedTest(it, feed_name) == it.feed = feed_name

\* Variant: the inner loop stops after the first appended candidate.
FallbackLoopStopsAtOne(cands, final, seen, already, limit) ==
    LET unseen == {i \in 1..Len(cands) : KeyOf(cands[i]) \notin seen}
    IN IF unseen = {} THEN [final |-> final, seen |-> seen]
       ELSE LET i == CHOOSE k \in unseen : \A m \in unseen : k <= m
            IN [final |-> Append(final, cands[i]), seen |-> seen \cup {KeyOf(cands[i])}]

RECURSIVE FallbackLoop(_, _, _, _, _)
FallbackLoop(cands, final, seen, already, limit) ==
    IF cands = << >> THEN [final |-> final, seen |-> seen]
    ELSE LET cand == Head(cands)
             key == KeyOf(cand)
         IN IF key \in seen
            THEN FallbackLoop(Tail(cands), final, seen, already, limit)
            ELSE IF already + 1 >= limit
                 THEN [final |-> Append(final, cand), seen |-> seen \cup {key}]
                 ELSE FallbackLoop(Tail(cands), Append(final, cand),
                                   seen \cup {key}, already + 1, limit)

\* Variant: the feed's candidates are taken in pool order, not newest-first.
FallbackForFeedUnsorted(items, final, seen, feed_name, limit) ==
    LET feed_items == SelectSeq(items, LAMBDA it : FeedTest(it, feed_name))
        already_in == SelectSeq(final, LAMBDA it : FeedTest(it, feed_name))
    IN IF feed_items = << >> THEN [final |-> final, seen |-> seen]
       ELSE IF Len(already_in) >= limit THEN [final |-> final, seen |-> seen]
       ELSE FallbackLoop(feed_items, final, seen, Len(already_in), limit)

FallbackForFeed(items, final, seen, feed_name, limit) ==
    LET feed_items == SelectSeq(items, LAMBDA it : FeedTest(it, feed_name))
        already_in == SelectSeq(final, LAMBDA it : FeedTest(it, feed_name))
    IN IF feed_items = << >> THEN [final |-> final, seen |-> seen]
       ELSE IF Len(already_in) >= limit THEN [final |-> final, seen |-> seen]
       ELSE FallbackLoop(SortDesc(feed_items), final, seen, Len(already_in), limit)

FallbackFeed ==
    /\ pc = "fallback"
    /\ fi <= NumFeeds
    /\ LET r == FallbackForFeed(all_items, final_items, seen_keys, FEEDS[fi],
                                fallback_limit_per_feed)
       IN /\ final_items' = r.final
          /\ seen_keys' = r.seen
    /\ fi' = fi + 1
    /\ UNCHANGED <<pc, responses, all_items, fallback_limit_per_feed, global_limit,
                   now_ist, cutoff, within_window>>

\* Variant: the final sort is missing.
GlobalSortOfSkipped(final) == final

GlobalSortOf(final) == SortDesc(final)

GlobalSort ==
    /\ pc = "fallback"
    /\ fi > NumFeeds
    /\ final_items' = GlobalSortOf(final_items)
    /\ pc' = "trim"
    /\ UNCHANGED <<fi, responses, all_items, fallback_limit_per_feed, global_limit,
                   now_ist, cutoff, within_window, seen_keys>>

\* Variant: the trim keeps the tail of the list.
TrimOfKeepsTail(final, gl) ==
    IF gl # None /\ Len(final) > gl[1]
    THEN SubSeq(final, Len(final) - gl[1] + 1, Len(final)) ELSE final

TrimOf(final, gl) ==
    IF gl # None /\ Len(final) > gl[1] THEN SubSeq(final, 1, gl[1]) ELSE final

Trim ==
    /\ pc = "trim"
    /\ final_items' = TrimOf(final_items, global_limit)
    /\ pc' = "done"
    /\ UNCHANGED <<fi, responses, all_items, fallback_limit_per_feed, global_limit,
                   now_ist, cutoff, within_window, seen_keys>>

----------------------------------------------------------------------------

Init ==
    /\ pc = "fetch"
    /\ fi = 1
    /\ responses = << >>
    /\ all_items = << >>
    /\ fallback_limit_per_feed = 0
    /\ global_limit = None
    /\ now_ist = Epoch
    /\ cutoff = Epoch
    /\ within_window = << >>
    /\ final_items = << >>
    /\ seen_keys = {}

Next ==
    \/ FetchAllStep
    \/ FetchAllReturn
    \/ FilterBegin
    \/ FallbackFeed
    \/ GlobalSort
    \/ Trim

Spec == Init /\ [][Next]_vars

----------------------------------------------------------------------------
(* Vocabulary of the properties, stated on the data alone *)

LocalTs(it) == it.dt_ist.wall - it.dt_ist.off

CutoffTs == cutoff.wall - cutoff.off

NowTs == now_ist.wall - now_ist.off

Min(a, b) == IF a <= b THEN a ELSE b

Range(s) == {s[i] : i \in 1..Len(s)}

Occ(s, v) == Cardinality({i \in 1..Len(s) : s[i] = v})

CountFeed(s, f) == Cardinality({i \in 1..Len(s) : s[i].feed = f})

FeedNames == {FEEDS[i] : i \in 1..Len(FEEDS)}

Recent(it) == LocalTs(it) >= CutoffTs

RecentOfFeed(s, f) == Cardinality({i \in 1..Len(s) : s[i].feed = f /\ Recent(s[i])})

RecentCount(s) == Cardinality({i \in 1..Len(s) : Recent(s[i])})

LinksOfFeed(s, f) == {s[i].link : i \in {k \in 1..Len(s) : s[k].feed = f}}

Stamped == pc \in {"fallback", "trim", "done"}

----------------------------------------------------------------------------
\* C1: the list returned by filter_last_window holds no two entries with the
\* same (feed, link) pair.
C1_NoDuplicateKeys ==
    pc = "done" =>
        \A i, j \in 1..Len(final_items) :
            i < j => << final_items[i].feed, final_items[i].link >>
                        # << final_items[j].feed, final_items[j].link >>

----------------------------------------------------------------------------
\* C2 as stated: when the trim drops nothing, every feed with an item in the
\* pool has at least min(fallback_limit_per_feed, number of its pool items)
\* items in the output.
C2_FloorByItemCount ==
    [][(pc = "trim" /\ pc' = "done" /\ Len(final_items') = Len(final_items)) =>
          \A f \in FeedNames :
              CountFeed(all_items, f) >= 1 =>
                  CountFeed(final_items', f)
                      >= Min(fallback_limit_per_feed, CountFeed(all_items, f))]_vars

\* C2 amended: when the trim drops nothing, every feed with an item in the
\* pool has at least min(fallback_limit_per_feed, number of distinct links of
\* that feed in the pool) items in the output.
C2_FloorByDistinctLinks ==
    [][(pc = "trim" /\ pc' = "done" /\ Len(final_items') = Len(final_items)) =>
          \A f \in FeedNames :
              CountFeed(all_items, f) >= 1 =>
                  CountFeed(final_items', f)
                      >= Min(fallback_limit_per_feed,
                             Cardinality(LinksOfFeed(all_items, f)))]_vars

C2_Witness ==
    /\ pc = "done"
    /\ global_limit = None
    /\ fallback_limit_per_feed = 2
    /\ \E f \in FeedNames :
          /\ RecentOfFeed(all_items, f) = 0
          /\ CountFeed(all_items, f) = 2
          /\ Cardinality(LinksOfFeed(all_items, f)) = 2
          /\ CountFeed(final_items, f) = 2

----------------------------------------------------------------------------
\* C3: the returned list is ordered newest-first, every entry's local
\* timestamp is at least that of the entry after it.
C3_SortedNewestFirst ==
    pc = "done" =>
        \A i \in 1..Len(final_items) - 1 :
            LocalTs(final_items[i]) >= LocalTs(final_items[i + 1])

C3_Witness ==
    /\ pc = "done"
    /\ Len(final_items) = 2
    /\ Len(within_window) = 0
    /\ final_items[1].feed = FEEDS[2]
    /\ final_items[2].feed = FEEDS[1]
    /\ LocalTs(final_items[1]) > LocalTs(final_items[2])

----------------------------------------------------------------------------
----------------------------------------------------------------------------
\* C5: an item without dt_utc is stamped with the now of the call, counts as
\* within the window, is in the result before the trim, and in the output
\* only entries at least as recent as that now come before it.
C5_MissingTimestampIsNow ==
    /\ Stamped =>
          /\ NowTs = Now
          /\ \A i \in 1..Len(all_items) :
                all_items[i].dt_utc = << >> =>
                    /\ LocalTs(all_items[i]) = NowTs
                    /\ LocalTs(all_items[i]) >= CutoffTs
    /\ pc = "trim" =>
          \A i \in 1..Len(all_items) :
              all_items[i].dt_utc = << >> =>
                  Occ(final_items, all_items[i]) >= Occ(all_items, all_items[i])
    /\ pc = "done" =>
          \A j \in 1..Len(final_items) :
              final_items[j].dt_utc = << >> =>
                  \A i \in 1..(j - 1) : LocalTs(final_items[i]) >= NowTs

C5_Witness ==
    /\ pc = "done"
    /\ Len(final_items) >= 2
    /\ final_items[2].dt_utc = << >>
    /\ LocalTs(final_items[1]) > NowTs
    /\ LocalTs(final_items[2]) = Now

----------------------------------------------------------------------------
\* C6 as stated: once fetched, the pool is left as it was, same items in the
\* same order with the same fields and values.
C6_PoolUntouched ==
    [][pc # "fetch" => all_items' = all_items]_vars

\* C6 amended: the call keeps the pool's length and order and the value of
\* every field other than dt_ist; the only change is that every item has a
\* dt_ist field afterwards.
C6_PoolOnlyGainsDtIst ==
    [][pc # "fetch" =>
          /\ Len(all_items') = Len(all_items)
          /\ \A i \in 1..Len(all_items) :
                /\ DOMAIN all_items'[i] = DOMAIN all_items[i] \cup {"dt_ist"}
                /\ \A k \in DOMAIN all_items[i] \ {"dt_ist"} :
                      all_items'[i][k] = all_items[i][k]]_vars

C6_Witness ==
    /\ pc = "done"
    /\ Len(all_items) = 2
    /\ LocalTs(all_items[1]) < LocalTs(all_items[2])
    /\ all_items[1].dt_utc # << >>
    /\ all_items[2].dt_utc = << >>
    /\ Len(final_items) = 2

----------------------------------------------------------------------------
\* C7: fetch_all visits every feed in turn up to its return; a feed whose
\* fetch or parse fails adds nothing, and the pool is the concatenation, in
\* registry order, of the items of the feeds that succeeded.
FeedSucceeded(resp) ==
    /\ resp.status = "ok"
    /\ \A i \in 1..Len(resp.entries) :
          resp.entries[i].dt_struct = << >> \/ resp.entries[i].dt_struct[1] >= MINYEAR

ItemsOfFeed(n, resp) ==
    IF FeedSucceeded(resp)
    THEN [i \in 1..Len(resp.entries) |->
             [feed |-> FEEDS[n],
              link |-> resp.entries[i].link,
              dt_utc |-> IF resp.entries[i].dt_struct = << >> THEN << >>
                         ELSE << [wall |-> resp.entries[i].dt_struct[1], off |-> 0] >>]]
    ELSE << >>

RECURSIVE ExpectedPool(_)
ExpectedPool(n) ==
    IF n = 0 THEN << >> ELSE ExpectedPool(n - 1) \o ItemsOfFeed(n, responses[n])

C7_FailedFeedsContributeNothing ==
    pc = "fetch" =>
        /\ fi \in 1..(NumFeeds + 1)
        /\ Len(responses) = fi - 1
        /\ all_items = ExpectedPool(fi - 1)

C7_Witness ==
    /\ pc = "fetch"
    /\ fi = NumFeeds + 1
    /\ \E n \in 1..NumFeeds :
          /\ responses[n].status = "ok"
          /\ Len(responses[n].entries) = 2
          /\ responses[n].entries[1].dt_struct = << >>
          /\ ~FeedSucceeded(responses[n])
    /\ \E n \in 1..NumFeeds : responses[n].status = "http_error"
    /\ all_items = << >>

----------------------------------------------------------------------------
\* C8: filter_last_window reaches no error state; an empty pool gives an
\* empty output; a configured feed without items changes nothing, the output
\* is that of the registry without it, and without a cap every within-window
\* item of the pool is returned.
RECURSIVE FallbackOver(_, _, _, _)
FallbackOver(feeds, items, acc, limit) ==
    IF feeds = << >> THEN acc
    ELSE FallbackOver(Tail(feeds), items,
                      FallbackForFeed(items, acc.final, acc.seen, Head(feeds), limit),
                      limit)

SelectorOver(feeds, items, cut, limit, gl) ==
    LET seed == Seed(WithinWindow(items, cut))
    IN TrimOf(GlobalSortOf(FallbackOver(feeds, items,
                                        [final |-> seed, seen |-> KeysOf(seed)],
                                        limit).final), gl)

HasItems(f, items) == \E i \in 1..Len(items) : items[i].feed = f

FeedsWithItems == SelectSeq(FEEDS, LAMBDA f : HasItems(f, all_items))

C8_NoErrorAndEmptyFeedsSkipped ==
    /\ pc # "error"
    /\ pc = "done" =>
          /\ all_items = << >> => final_items = << >>
          /\ final_items = SelectorOver(FeedsWithItems, all_items, cutoff,
                                        fallback_limit_per_feed, global_limit)
          /\ global_limit = None =>
                \A i \in 1..Len(all_items) :
                    Recent(all_items[i]) =>
                        Occ(final_items, all_items[i]) >= Occ(all_items, all_items[i])

C8_Witness ==
    /\ pc = "done"
    /\ CountFeed(all_items, FEEDS[1]) = 0
    /\ CountFeed(all_items, FEEDS[2]) = 2
    /\ \E i \in 1..Len(all_items) : all_items[i].dt_utc = << >>
    /\ Len(final_items) = 2
    /\ fallback_limit_per_feed >= 1

----------------------------------------------------------------------------
\* C9: when every feed with items has at least fallback_limit_per_feed items
\* inside the window and these fit under global_limit, the output is exactly
\* the within-window items of the pool.
NoFallbackNeeded ==
    /\ \A f \in FeedNames :
          CountFeed(all_items, f) >= 1 =>
              RecentOfFeed(all_items, f) >= fallback_limit_per_feed
    /\ global_limit # None => RecentCount(all_items) <= global_limit[1]

C9_OnlyWindowItemsWhenFloorMet ==
    (pc = "done" /\ NoFallbackNeeded) =>
        /\ \A v \in Range(all_items) :
              Occ(final_items, v) = (IF Recent(v) THEN Occ(all_items, v) ELSE 0)
        /\ Range(final_items) \subseteq Range(all_items)

C9_Witness ==
    /\ pc = "done"
    /\ NoFallbackNeeded
    /\ fallback_limit_per_feed = 1
    /\ Len(all_items) = 2
    /\ Len(final_items) = 1
    /\ LocalTs(final_items[1]) = CutoffTs
    /\ CountFeed(final_items, FEEDS[1]) = 1
    /\ CountFeed(all_items, FEEDS[1]) = 2

----------------------------------------------------------------------------
\* C10: before the trim, an item older than the cutoff is in the result only
\* if its feed has fewer than fallback_limit_per_feed within-window items;
\* then the feed has at most fallback_limit_per_feed items in the result and
\* every strictly newer item of that feed has its (feed, link) key in the
\* result.
C10_FallbackMinimalNewestFirst ==
    pc = "trim" =>
        \A i \in 1..Len(final_items) :
            ~Recent(final_items[i]) =>
                LET x == final_items[i]
                IN /\ RecentOfFeed(all_items, x.feed) < fallback_limit_per_feed
                   /\ CountFeed(final_items, x.feed) <= fallback_limit_per_feed
                   /\ \A j \in 1..Len(all_items) :
                         (all_items[j].feed = x.feed
                            /\ LocalTs(all_items[j]) > LocalTs(x)) =>
                             \E k \in 1..Len(final_items) :
                                 /\ final_items[k].feed = all_items[j].feed
                                 /\ final_items[k].link = all_items[j].link

C10_Witness ==
    /\ pc = "trim"
    /\ fallback_limit_per_feed = 1
    /\ Len(all_items) = 2
    /\ all_items[1].feed = all_items[2].feed
    /\ LocalTs(all_items[1]) < LocalTs(all_items[2])
    /\ ~Recent(all_items[2])
    /\ final_items = << all_items[2] >>

====
